---- MODULE Spec2Model ----
(***************************************************************************)
(* Model of the ml-pipeline-service core: the Pipeline aggregate           *)
(* (domain/entities/pipeline.py) and the PipelineOrchestrator that drives  *)
(* it (application/pipeline_orchestrator.py).                              *)
(*                                                                         *)
(* The specifications share the variables:                                 *)
(*   SpecAgg     any sequence of public aggregate operations on a Pipeline *)
(*   Spec        one execute_pipeline task interleaved, at its awaits,     *)
(*               with cancel_pipeline calls of other tasks                 *)
(*   SpecNotify  notifications through a CompositeProgressNotifier         *)
(*               (infrastructure/progress_notifier.py)                     *)
(*   SpecResume  one resume_pipeline_from_checkpoint task, interleaved     *)
(*               with cancel_pipeline calls                                *)
(*   SpecTimed   Spec with the passing of wall-clock time                  *)
(*   SpecBroadcast  one broadcast of a WebSocketProgressNotifier,          *)
(*               interleaved with clients connecting and disconnecting     *)
(***************************************************************************)
EXTENDS Integers, Sequences, FiniteSets, TLC

VARIABLES
    pipeline,   \* the Pipeline aggregate (one object, shared by reference)
    call,       \* SpecAgg: the last aggregate operation called and how it ended
    ops,        \* SpecAgg: number of aggregate operations called so far
    active,     \* PipelineOrchestrator._active_pipelines (its key set)
    driver,     \* the execute_pipeline coroutine: position and locals
    canceller,  \* the cancel_pipeline coroutine: position and locals
    effects,    \* calls made on the collaborators, in the order they took effect
    faults,     \* number of collaborator calls that raised so far
    cancels,    \* number of cancel_pipeline calls made so far
    checkpoints,\* InMemoryCheckpointManager._checkpoints
    composite,  \* SpecNotify: a CompositeProgressNotifier and the gather it awaits
    clock,      \* SpecTimed: seconds elapsed since execute_pipeline was called
    socket      \* SpecBroadcast: a WebSocketProgressNotifier and its broadcast

orchestratorVars ==
    <<pipeline, call, ops, active, driver, canceller, effects, faults, cancels,
      checkpoints, clock, socket>>

notifierVars ==
    <<pipeline, call, ops, active, driver, canceller, effects, faults, cancels,
      checkpoints, composite, clock>>

vars == <<pipeline, call, ops, active, driver, canceller, effects, faults, cancels,
          checkpoints, composite, clock, socket>>

(***************************************************************************)
(* Bounds                                                                  *)
(***************************************************************************)
MaxStages == 2
MaxRetries == 1
MaxOps == 4
MaxFaults == 1
MaxCancels == 1
MaxChildren == 2
MaxNotifications == 2
MaxTime == 2
TimeoutSeconds == 1
MaxClients == 3
MaxChurn == 2

(***************************************************************************)
(* Inputs: stage lists and configurations                                  *)
(***************************************************************************)
NamePool == <<"s1", "s2", "s3", "s4", "s5">>

Stage(name, dependencies) == [name |-> name, dependencies |-> dependencies]

\* n independent stages
PlainStages(n) == [i \in 1..n |-> Stage(NamePool[i], {})]

\* each stage depends on the one before it (the shape of the tests' mock_stages)
ChainStages(n) == [i \in 1..n |-> Stage(NamePool[i], IF i = 1 THEN {} ELSE {NamePool[i - 1]})]

\* the last stage depends on a stage that is not part of the pipeline
UnmetStages(n) == [i \in 1..n |-> Stage(NamePool[i], IF i = n THEN {"missing"} ELSE {})]

\* the last stage happens to be called "orchestrator"
OrchStages(n) == [i \in 1..n |-> Stage(IF i = n THEN "orchestrator" ELSE NamePool[i], {})]

StageLists ==
    {<<>>}
    \cup { PlainStages(n) : n \in 1..MaxStages }
    \cup { ChainStages(n) : n \in 2..MaxStages }
    \cup { UnmetStages(2), OrchStages(2) }

PipelineConfiguration(max_retries, checkpoint_enabled) ==
    [ max_retries |-> max_retries, checkpoint_enabled |-> checkpoint_enabled,
      timeout_seconds |-> TimeoutSeconds ]

Configurations ==
    { PipelineConfiguration(r, c) : r \in {0, MaxRetries}, c \in BOOLEAN }

ErrorMessages == {"boom", "bang"}

(***************************************************************************)
(* StageResult and domain events                                           *)
(***************************************************************************)
\* a dict with no keys
EmptyDict == [k \in {} |-> "-"]

\* dict.update: the entries of `a` overwritten and extended by those of `b`
update(a, b) ==
    [k \in DOMAIN a \cup DOMAIN b |-> IF k \in DOMAIN b THEN b[k] ELSE a[k]]

StageResult(status, error_message, checkpoint_data, output_data) ==
    [ status |-> status, error_message |-> error_message,
      checkpoint_data |-> checkpoint_data, output_data |-> output_data ]

\* no entry in the _stage_results dict
NoResult == StageResult("ABSENT", "none", FALSE, EmptyDict)

\* id is assigned when the event is added (DomainEvent.event_id is a fresh uuid)
DomainEvent(type, stage_name, retry_count, info) ==
    [type |-> type, stage_name |-> stage_name, retry_count |-> retry_count, info |-> info, id |-> 0]

\* StageFailedEvent._get_event_data; the event's max_retries is the
\* configuration's, handed over by fail_stage
_get_event_data(event, max_retries) ==
    [ stage_name    |-> event.stage_name,
      error_message |-> event.info,
      retry_count   |-> event.retry_count,
      max_retries   |-> max_retries,
      will_retry    |-> event.retry_count < max_retries ]

(***************************************************************************)
(* The Pipeline aggregate                                                  *)
(***************************************************************************)
\* results of one call of an aggregate operation: the aggregate afterwards and
\* the exception raised ("none" when the call returned)
Ok(p) == [p |-> p, err |-> "none"]

Raise(p, err) == [p |-> p, err |-> err]

StageNames(stages) == { stages[i].name : i \in 1..Len(stages) }

\* ProcessingId.generate() and the VideoId of the request
PipelineId == "p1"

VideoId == "v1"

VideoPath == "video.mp4"

Pipeline(configuration, stages) ==
    [ id                  |-> PipelineId,
      video_id            |-> VideoId,
      configuration       |-> configuration,
      stages              |-> StageNames(stages),
      dependencies        |-> [ n \in StageNames(stages) |->
                                  stages[CHOOSE i \in 1..Len(stages) : stages[i].name = n].dependencies ],
      stage_order         |-> [ i \in 1..Len(stages) |-> stages[i].name ],
      status              |-> "PENDING",
      stage_results       |-> [ n \in StageNames(stages) |-> NoResult ],
      current_stage_index |-> 0,
      domain_events       |-> <<>>,
      retry_counts        |-> [ n \in StageNames(stages) |-> 0 ],
      checkpoint_data     |-> {},
      emitted             |-> <<>> ]  \* history: every event ever added, in order

\* current_stage: the name at the current index, "None" past the end
current_stage(p) ==
    IF p.current_stage_index < Len(p.stage_order)
    THEN p.stage_order[p.current_stage_index + 1]
    ELSE "None"

\* progress_percentage with every recorded result counted, whatever its status
progress_percentageAnyStatus(p) ==
    IF Len(p.stage_order) = 0
    THEN [num |-> 0, den |-> 1]
    ELSE LET completed_stages ==
                 { n \in DOMAIN p.stage_results : p.stage_results[n].status # "ABSENT" }
         IN  [num |-> Cardinality(completed_stages) * 100, den |-> Len(p.stage_order)]

\* progress_percentage: (completed_stages / len(_stage_order)) * 100.0, kept as
\* the quotient num / den; 0.0 for an empty stage list
progress_percentage(p) ==
    IF Len(p.stage_order) = 0
    THEN [num |-> 0, den |-> 1]
    ELSE LET completed_stages ==
                 { n \in DOMAIN p.stage_results :
                     /\ p.stage_results[n].status # "ABSENT"
                     /\ p.stage_results[n].status = "COMPLETED" }
         IN  [num |-> Cardinality(completed_stages) * 100, den |-> Len(p.stage_order)]

_add_domain_event(p, event) ==
    LET e == [event EXCEPT !.id = Len(p.emitted) + 1]
    IN  [p EXCEPT !.domain_events = Append(@, e), !.emitted = Append(@, e)]

clear_domain_events(p) == [p EXCEPT !.domain_events = <<>>]

\* start_processing completing a pipeline that has no stages on the spot
start_processingAutoComplete(p) ==
    IF p.status # "PENDING"
    THEN Raise(p, "ValueError")
    ELSE LET started == _add_domain_event([p EXCEPT !.status = "RUNNING"],
                                          DomainEvent("PipelineStarted", "-", 0, "-"))
         IN  IF Len(p.stage_order) = 0
             THEN Ok(_add_domain_event([started EXCEPT !.status = "COMPLETED"],
                                       DomainEvent("PipelineCompleted", "-", 0, "-")))
             ELSE Ok(started)

start_processing(p) ==
    IF p.status # "PENDING"
    THEN Raise(p, "ValueError")
    ELSE Ok(_add_domain_event([p EXCEPT !.status = "RUNNING"],
                              DomainEvent("PipelineStarted", "-", 0, "-")))

\* complete_pipeline without the loop that verifies the stage results
complete_pipelineUnverified(p) ==
    IF p.status # "RUNNING"
    THEN Raise(p, "ValueError")
    ELSE Ok(_add_domain_event([p EXCEPT !.status = "COMPLETED"],
                              DomainEvent("PipelineCompleted", "-", 0, "-")))

complete_pipeline(p) ==
    IF p.status # "RUNNING"
    THEN Raise(p, "ValueError")
    ELSE IF \E i \in 1..Len(p.stage_order) :
                p.stage_results[p.stage_order[i]].status # "COMPLETED"
    THEN Raise(p, "ValueError")
    ELSE Ok(_add_domain_event([p EXCEPT !.status = "COMPLETED"],
                              DomainEvent("PipelineCompleted", "-", 0, "-")))

_advance_to_next_stage(p) ==
    LET q == [p EXCEPT !.current_stage_index = @ + 1]
    IN  IF q.current_stage_index >= Len(q.stage_order)
        THEN complete_pipeline(q)
        ELSE Ok(q)

\* complete_stage without the test of the pipeline status
complete_stageAnyStatus(p, stage_name, result) ==
    IF stage_name \notin p.stages
    THEN Raise(p, "ValueError")
    ELSE
      LET stored == [p EXCEPT !.stage_results[stage_name] = result]
          kept   == IF p.configuration.checkpoint_enabled /\ result.checkpoint_data
                    THEN [stored EXCEPT !.checkpoint_data = @ \cup {stage_name}]
                    ELSE stored
          adv    == IF result.status = "COMPLETED"
                    THEN _advance_to_next_stage([kept EXCEPT !.retry_counts[stage_name] = 0])
                    ELSE Ok(kept)
      IN  IF adv.err # "none"
          THEN adv
          ELSE Ok(_add_domain_event(adv.p,
                      DomainEvent("StageCompleted", stage_name, 0, result.status)))

\* complete_stage resetting the retry count whatever the status of the result
complete_stageResetAlways(p, stage_name, result) ==
    IF stage_name \notin p.stages
    THEN Raise(p, "ValueError")
    ELSE IF p.status # "RUNNING"
    THEN Raise(p, "ValueError")
    ELSE
      LET stored == [p EXCEPT !.stage_results[stage_name] = result]
          kept   == IF p.configuration.checkpoint_enabled /\ result.checkpoint_data
                    THEN [stored EXCEPT !.checkpoint_data = @ \cup {stage_name}]
                    ELSE stored
          adv    == IF result.status = "COMPLETED"
                    THEN _advance_to_next_stage([kept EXCEPT !.retry_counts[stage_name] = 0])
                    ELSE Ok([kept EXCEPT !.retry_counts[stage_name] = 0])
      IN  IF adv.err # "none"
          THEN adv   \* complete_pipeline raised: the writes above stay, no StageCompleted
          ELSE Ok(_add_domain_event(adv.p,
                      DomainEvent("StageCompleted", stage_name, 0, result.status)))

complete_stage(p, stage_name, result) ==
    IF stage_name \notin p.stages
    THEN Raise(p, "ValueError")
    ELSE IF p.status # "RUNNING"
    THEN Raise(p, "ValueError")
    ELSE
      LET stored == [p EXCEPT !.stage_results[stage_name] = result]
          kept   == IF p.configuration.checkpoint_enabled /\ result.checkpoint_data
                    THEN [stored EXCEPT !.checkpoint_data = @ \cup {stage_name}]
                    ELSE stored
          adv    == IF result.status = "COMPLETED"
                    THEN _advance_to_next_stage([kept EXCEPT !.retry_counts[stage_name] = 0])
                    ELSE Ok(kept)
      IN  IF adv.err # "none"
          THEN adv   \* complete_pipeline raised: the writes above stay, no StageCompleted
          ELSE Ok(_add_domain_event(adv.p,
                      DomainEvent("StageCompleted", stage_name, 0, result.status)))

\* fail_stage giving the stage one attempt more before the pipeline fails
fail_stageOneAttemptMore(p, stage_name, error_message) ==
    IF stage_name \notin p.stages
    THEN Raise(p, "ValueError")
    ELSE
      LET retry_count == p.retry_counts[stage_name]
          counted     == [p EXCEPT !.retry_counts[stage_name] = retry_count + 1]
          failed      == IF retry_count > p.configuration.max_retries
                         THEN [counted EXCEPT
                                 !.status = "FAILED",
                                 !.stage_results[stage_name] =
                                     StageResult("FAILED", error_message, FALSE, EmptyDict)]
                         ELSE counted
      IN  Ok(_add_domain_event(failed,
                 DomainEvent("StageFailed", stage_name,
                             failed.retry_counts[stage_name], error_message)))

\* fail_stage keeping the message of a failure already recorded for the stage
fail_stageFirstMessageKept(p, stage_name, error_message) ==
    IF stage_name \notin p.stages
    THEN Raise(p, "ValueError")
    ELSE
      LET retry_count == p.retry_counts[stage_name]
          counted     == [p EXCEPT !.retry_counts[stage_name] = retry_count + 1]
          message     == IF p.stage_results[stage_name].status = "FAILED"
                         THEN p.stage_results[stage_name].error_message
                         ELSE error_message
          failed      == IF retry_count >= p.configuration.max_retries
                         THEN [counted EXCEPT
                                 !.status = "FAILED",
                                 !.stage_results[stage_name] =
                                     StageResult("FAILED", message, FALSE, EmptyDict)]
                         ELSE counted
      IN  Ok(_add_domain_event(failed,
                 DomainEvent("StageFailed", stage_name,
                             failed.retry_counts[stage_name], error_message)))

fail_stage(p, stage_name, error_message) ==
    IF stage_name \notin p.stages
    THEN Raise(p, "ValueError")
    ELSE
      LET retry_count == p.retry_counts[stage_name]
          counted     == [p EXCEPT !.retry_counts[stage_name] = retry_count + 1]
          failed      == IF retry_count >= p.configuration.max_retries
                         THEN [counted EXCEPT
                                 !.status = "FAILED",
                                 !.stage_results[stage_name] =
                                     StageResult("FAILED", error_message, FALSE, EmptyDict)]
                         ELSE counted
      IN  Ok(_add_domain_event(failed,
                 DomainEvent("StageFailed", stage_name,
                             failed.retry_counts[stage_name], error_message)))

cancel_pipeline(p, reason) ==
    IF p.status \in {"COMPLETED", "FAILED"}
    THEN Raise(p, "ValueError")
    ELSE Ok(_add_domain_event([p EXCEPT !.status = "CANCELLED"],
                              DomainEvent("PipelineCancelled", "-", 0, reason)))

get_stage_dependencies_met(p, stage_name) ==
    IF stage_name \notin p.stages
    THEN FALSE
    ELSE \A d \in p.dependencies[stage_name] :
            d \in p.stages /\ p.stage_results[d].status = "COMPLETED"

\* the stage list a Pipeline was constructed from
StagesOf(p) ==
    [ i \in 1..Len(p.stage_order) |->
        [name |-> p.stage_order[i], dependencies |-> p.dependencies[p.stage_order[i]]] ]

\* get_checkpoint_data: the snapshot of the control state.  A dict holds only
\* the entries that were stored: results of stages that have one, retry
\* counts that are not zero.
get_checkpoint_data(p) ==
    [ pipeline_id         |-> p.id,
      video_id            |-> p.video_id,
      status              |-> p.status,
      current_stage_index |-> p.current_stage_index,
      stage_results       |-> [ n \in { m \in p.stages : p.stage_results[m].status # "ABSENT" }
                                  |-> p.stage_results[n] ],
      retry_counts        |-> [ n \in { m \in p.stages : p.retry_counts[m] # 0 }
                                  |-> p.retry_counts[n] ],
      checkpoint_data     |-> p.checkpoint_data ]

\* restore_from_checkpoint that replaces the stored results by an empty dict
restore_from_checkpointWithoutResults(checkpoint_data, stages, configuration) ==
    LET fresh == Pipeline(configuration, stages)
    IN  IF \/ ~(DOMAIN checkpoint_data.stage_results \subseteq StageNames(stages))
           \/ ~(DOMAIN checkpoint_data.retry_counts \subseteq StageNames(stages))
        THEN Raise(fresh, "IncompatibleStagesError")
        ELSE Ok([ fresh EXCEPT
                    !.id = checkpoint_data.pipeline_id,
                    !.video_id = checkpoint_data.video_id,
                    !.status = checkpoint_data.status,
                    !.current_stage_index = checkpoint_data.current_stage_index,
                    !.retry_counts =
                        [ n \in StageNames(stages) |->
                            IF n \in DOMAIN checkpoint_data.retry_counts
                            THEN checkpoint_data.retry_counts[n] ELSE 0 ],
                    !.checkpoint_data = checkpoint_data.checkpoint_data ])

\* restore_from_checkpoint: the aggregate rebuilt from a snapshot and the
\* stage list; the snapshot holds no configuration, so the one the restored
\* aggregate gets is an input.  Nothing is added to the pending events.
restore_from_checkpoint(checkpoint_data, stages, configuration) ==
    LET fresh == Pipeline(configuration, stages)
    IN  IF \/ ~(DOMAIN checkpoint_data.stage_results \subseteq StageNames(stages))
           \/ ~(DOMAIN checkpoint_data.retry_counts \subseteq StageNames(stages))
        THEN Raise(fresh, "IncompatibleStagesError")
        ELSE Ok([ fresh EXCEPT
                    !.id = checkpoint_data.pipeline_id,
                    !.video_id = checkpoint_data.video_id,
                    !.status = checkpoint_data.status,
                    !.current_stage_index = checkpoint_data.current_stage_index,
                    !.stage_results =
                        [ n \in StageNames(stages) |->
                            IF n \in DOMAIN checkpoint_data.stage_results
                            THEN checkpoint_data.stage_results[n] ELSE NoResult ],
                    !.retry_counts =
                        [ n \in StageNames(stages) |->
                            IF n \in DOMAIN checkpoint_data.retry_counts
                            THEN checkpoint_data.retry_counts[n] ELSE 0 ],
                    !.checkpoint_data = checkpoint_data.checkpoint_data ])

(***************************************************************************)
(* SpecAgg: the aggregate's public operations called in any order          *)
(***************************************************************************)
\* results a caller may hand to complete_stage (BaseStage.process builds both)
\* results a stage body returns: COMPLETED with the output of its stage (the
\* 'stage' key of MockStage), FAILED with no output (BaseStage.process)
StageResults(stage_name) ==
    { StageResult("COMPLETED", "none", TRUE, [stage |-> stage_name]),
      StageResult("FAILED", "boom", FALSE, EmptyDict) }

\* names a caller may pass: the declared ones and one that is not declared
CallNames(p) == p.stages \cup {"unknown"}

\* one call of a public method.  call.streak is history: the number of
\* fail_stage calls made in a row for call.stage_name, counted from a RUNNING
\* pipeline whose retry count for that stage was 0 (0 when the last call is
\* not part of such a row)
Called(op, stage_name, arg, r) ==
    /\ ops < MaxOps
    /\ ops' = ops + 1
    /\ pipeline' = r.p
    /\ call' = [ op |-> op, stage_name |-> stage_name, arg |-> arg, err |-> r.err,
                 streak |->
                     IF op # "fail_stage" \/ r.err # "none" THEN 0
                     ELSE IF pipeline.status = "RUNNING" /\ pipeline.retry_counts[stage_name] = 0
                     THEN 1
                     ELSE IF call.op = "fail_stage" /\ call.stage_name = stage_name /\ call.streak > 0
                     THEN call.streak + 1
                     ELSE 0 ]
    /\ UNCHANGED <<active, driver, canceller, effects, faults, cancels, checkpoints, composite, clock, socket>>

AggStart == Called("start_processing", "-", "-", start_processing(pipeline))

AggCompleteStage ==
    \E n \in CallNames(pipeline) : \E result \in StageResults(n) :
        Called("complete_stage", n, result.status, complete_stage(pipeline, n, result))

AggFailStage ==
    \E n \in CallNames(pipeline), m \in ErrorMessages :
        Called("fail_stage", n, m, fail_stage(pipeline, n, m))

AggCompletePipeline == Called("complete_pipeline", "-", "-", complete_pipeline(pipeline))

AggCancel == Called("cancel_pipeline", "-", "user", cancel_pipeline(pipeline, "user"))

AggClearEvents == Called("clear_domain_events", "-", "-", Ok(clear_domain_events(pipeline)))

(***************************************************************************)
(* The orchestrator: execute_pipeline as a coroutine.  driver.pc names the *)
(* await the coroutine is suspended at; one action is the completion of    *)
(* that await followed by the synchronous code up to the next await.       *)
(***************************************************************************)
NoEvent == DomainEvent("-", "-", 0, "-")

Effect(kind, stage_name, info, event) ==
    [kind |-> kind, stage_name |-> stage_name, info |-> info, event |-> event]

\* what load_checkpoint returns for a pipeline that has no checkpoint
NoCheckpoint == [pipeline_id |-> "None"]

IdleDriver ==
    [ pc      |-> "idle",   \* idle, publish, notify_started, process,
                            \* notify_completed, notify_failed, save, done
      at      |-> "-",      \* call site of _publish_domain_events being awaited
      events  |-> <<>>,     \* its local copy of pipeline.domain_events
      i       |-> 0,        \* index of the event being published
      stage   |-> 0,        \* position of the stage loop (1-based)
      input_data |-> EmptyDict,  \* the dict handed to the stage bodies
      checkpoint_data |-> NoCheckpoint,
                            \* the snapshot resume_pipeline_from_checkpoint was given
      exc     |-> "none",   \* exception held by the except block in progress
      outcome |-> "none",   \* how execute_pipeline ended: returned / raised
      error   |-> "none" ]  \* the exception it raised to its caller

\* the stage the loop is at
StageName(st) == st.p.stage_order[st.d.stage]

\* Finish without the removal from _active_pipelines
FinishKeepingActive(st, outcome, error) ==
    [ p |-> st.p,
      a |-> st.a,
      d |-> [st.d EXCEPT !.pc = "done", !.outcome = outcome, !.error = error] ]

\* finally-block of execute_pipeline, then return or re-raise
Finish(st, outcome, error) ==
    [ p |-> st.p,
      a |-> st.a \ {PipelineId},
      d |-> [st.d EXCEPT !.pc = "done", !.outcome = outcome, !.error = error] ]

\* _publish_domain_events entered at call site `at`, holding exception `exc`;
\* `skip` is the state reached when there is nothing to publish
EnterPublish(st, at, exc, skip) ==
    IF st.p.domain_events = <<>>
    THEN skip
    ELSE [st EXCEPT !.d.pc = "publish", !.d.at = at, !.d.exc = exc,
                    !.d.events = st.p.domain_events, !.d.i = 1]

\* except-block of execute_pipeline (lines 90-94)
OuterHandler(st, e) ==
    LET r == fail_stage(st.p, "orchestrator", e)
    IN  IF r.err # "none"
        THEN Finish(st, "raised", r.err)
        ELSE EnterPublish([st EXCEPT !.p = r.p], "outer", e,
                          Finish([st EXCEPT !.p = r.p], "raised", e))

\* AfterLoop returning without the complete_pipeline of lines 83-86
AfterLoopWithoutCompletion(st) ==
    Finish(st, "returned", "none")

\* after the stage loop (lines 83-88, 101)
AfterLoop(st) ==
    IF st.p.status = "RUNNING"
    THEN LET r == complete_pipeline(st.p)
         IN  IF r.err # "none"
             THEN OuterHandler(st, r.err)
             ELSE EnterPublish([st EXCEPT !.p = r.p], "final", "none",
                               Finish([st EXCEPT !.p = r.p], "returned", "none"))
    ELSE Finish(st, "returned", "none")

\* except-block of _execute_stage (lines 250-268) up to its first await
InnerHandler(st, e) ==
    LET r == fail_stage(st.p, StageName(st), e)
    IN  IF r.err # "none"
        THEN OuterHandler(st, r.err)
        ELSE EnterPublish([st EXCEPT !.p = r.p], "stage_fail", e,
                          [st EXCEPT !.p = r.p, !.d.pc = "notify_failed", !.d.exc = e])

\* EnterStage without the dependency check of lines 218-219
EnterStageUnchecked(st) ==
    [st EXCEPT !.d.pc = "notify_started"]

\* _execute_stage up to its first await (lines 212-226)
EnterStage(st) ==
    IF ~get_stage_dependencies_met(st.p, StageName(st))
    THEN InnerHandler(st, "RuntimeError")
    ELSE [st EXCEPT !.d.pc = "notify_started"]

\* head of the stage loop (lines 68-72)
LoopHead(st) ==
    IF st.d.stage > Len(st.p.stage_order)
    THEN AfterLoop(st)
    ELSE IF st.p.status # "RUNNING"
    THEN AfterLoop(st)
    ELSE EnterStage(st)

\* lines 78-81, then the next iteration
NextIteration(st) ==
    LET stage_result == st.p.stage_results[StageName(st)]
    IN  LoopHead([st EXCEPT !.d.stage = @ + 1,
                            !.d.input_data = IF stage_result.status # "ABSENT"
                                             THEN update(@, stage_result.output_data)
                                             ELSE @])

\* lines 64-68: the initial input data, then the first iteration
StartLoop(st) ==
    LoopHead([st EXCEPT !.d.stage = 1, !.d.input_data = [video_path |-> VideoPath]])

\* _execute_stage returned normally (lines 74-76)
AfterStage(st) ==
    IF st.p.configuration.checkpoint_enabled
    THEN [st EXCEPT !.d.pc = "save"]
    ELSE NextIteration(st)

\* AfterPublish with the completion notice of a stage left out
AfterPublishWithoutNotice(st) ==
    CASE st.d.at = "start"      -> StartLoop(st)
      [] st.d.at = "stage_ok"   -> AfterStage(st)
      [] st.d.at = "stage_fail" -> [st EXCEPT !.d.pc = "notify_failed"]
      [] st.d.at = "final"      -> Finish(st, "returned", "none")
      [] st.d.at = "outer"      -> Finish(st, "raised", st.d.exc)

\* _publish_domain_events returned to its call site
AfterPublish(st) ==
    CASE st.d.at = "start"      -> StartLoop(st)
      [] st.d.at = "stage_ok"   -> [st EXCEPT !.d.pc = "notify_completed"]
      [] st.d.at = "stage_fail" -> [st EXCEPT !.d.pc = "notify_failed"]
      [] st.d.at = "final"      -> Finish(st, "returned", "none")
      [] st.d.at = "outer"      -> Finish(st, "raised", st.d.exc)

\* the await the driver is suspended at raised e
RaiseAt(st, e) ==
    CASE st.d.pc = "publish" /\ st.d.at = "start"      -> OuterHandler(st, e)
      [] st.d.pc = "publish" /\ st.d.at = "stage_ok"   -> InnerHandler(st, e)
      [] st.d.pc = "publish" /\ st.d.at = "stage_fail" -> OuterHandler(st, e)
      [] st.d.pc = "publish" /\ st.d.at = "final"      -> OuterHandler(st, e)
      [] st.d.pc = "publish" /\ st.d.at = "outer"      -> Finish(st, "raised", e)
      [] st.d.pc = "notify_started"                    -> InnerHandler(st, e)
      [] st.d.pc = "process"                           -> InnerHandler(st, e)
      [] st.d.pc = "notify_completed"                  -> InnerHandler(st, e)
      [] st.d.pc = "notify_failed"                     -> OuterHandler(st, e)

Here == [p |-> pipeline, a |-> active, d |-> driver]

Goto(st) ==
    /\ pipeline' = st.p
    /\ active' = st.a
    /\ driver' = st.d

Fault == faults < MaxFaults /\ faults' = faults + 1

NoFault == faults' = faults

\* lines 54-62: create (Init holds the constructed aggregate), register, start
Begin ==
    /\ driver.pc = "idle"
    /\ LET st == [Here EXCEPT !.a = active \cup {PipelineId}]
           r  == start_processing(st.p)
       IN  Goto(IF r.err # "none"
                THEN OuterHandler(st, r.err)
                ELSE EnterPublish([st EXCEPT !.p = r.p], "start", "none",
                                  StartLoop([st EXCEPT !.p = r.p])))
    /\ UNCHANGED <<call, ops, canceller, effects, faults, cancels, checkpoints, composite, clock, socket>>

\* PublishOk leaving the loop after the first event of the copy
PublishOkFirstOnly ==
    /\ driver.pc = "publish"
    /\ effects' = Append(effects, Effect("publish", "-", "driver", driver.events[driver.i]))
    /\ Goto(AfterPublish([Here EXCEPT !.p = clear_domain_events(pipeline)]))
    /\ NoFault
    /\ UNCHANGED <<call, ops, canceller, cancels, checkpoints, composite, clock, socket>>

\* one turn of the loop of _publish_domain_events (lines 274-276)
PublishOk ==
    /\ driver.pc = "publish"
    /\ effects' = Append(effects, Effect("publish", "-", "driver", driver.events[driver.i]))
    /\ Goto(IF driver.i < Len(driver.events)
            THEN [Here EXCEPT !.d.i = @ + 1]
            ELSE AfterPublish([Here EXCEPT !.p = clear_domain_events(pipeline)]))
    /\ NoFault
    /\ UNCHANGED <<call, ops, canceller, cancels, checkpoints, composite, clock, socket>>

\* PublishFails with the exception caught and logged, as _save_checkpoint does
PublishFailsSwallowed ==
    /\ driver.pc = "publish"
    /\ Fault
    /\ effects' = Append(effects,
                      Effect("publish_failed", "-", "driver", driver.events[driver.i]))
    /\ Goto(IF driver.i < Len(driver.events)
            THEN [Here EXCEPT !.d.i = @ + 1]
            ELSE AfterPublish([Here EXCEPT !.p = clear_domain_events(pipeline)]))
    /\ UNCHANGED <<call, ops, canceller, cancels, checkpoints, composite, clock, socket>>

\* EventPublisher.publish raised inside _publish_domain_events (line 275)
PublishFails ==
    /\ driver.pc = "publish"
    /\ Fault
    /\ effects' = Append(effects,
                      Effect("publish_failed", "-", "driver", driver.events[driver.i]))
    /\ Goto(RaiseAt(Here, "PublishError"))
    /\ UNCHANGED <<call, ops, canceller, cancels, checkpoints, composite, clock, socket>>

\* notify_stage_started returned; stage.process is called (lines 222-232)
NotifyStartedOk ==
    /\ driver.pc = "notify_started"
    /\ effects' = effects \o << Effect("notify_stage_started", StageName(Here), "-", NoEvent),
                                Effect("process", StageName(Here), "-", NoEvent) >>
    /\ Goto([Here EXCEPT !.d.pc = "process"])
    /\ NoFault
    /\ UNCHANGED <<call, ops, canceller, cancels, checkpoints, composite, clock, socket>>

NotifyStartedFails ==
    /\ driver.pc = "notify_started"
    /\ Fault
    /\ effects' = Append(effects, Effect("notify_stage_started_failed", StageName(Here), "-", NoEvent))
    /\ Goto(RaiseAt(Here, "NotifyError"))
    /\ UNCHANGED <<call, ops, canceller, cancels, checkpoints, composite, clock, socket>>

\* stage.process returned a StageResult (lines 232-238)
ProcessReturns ==
    /\ driver.pc = "process"
    /\ \E result \in StageResults(StageName(Here)) :
         LET r == complete_stage(pipeline, StageName(Here), result)
         IN  /\ effects' = Append(effects,
                               Effect("process_returned", StageName(Here), result.status, NoEvent))
             /\ Goto(IF r.err # "none"
                     THEN InnerHandler([Here EXCEPT !.p = r.p], r.err)
                     ELSE EnterPublish([Here EXCEPT !.p = r.p], "stage_ok", "none",
                                       [Here EXCEPT !.p = r.p, !.d.pc = "notify_completed"]))
    /\ NoFault
    /\ UNCHANGED <<call, ops, canceller, cancels, checkpoints, composite, clock, socket>>

\* stage.process raised
ProcessRaises ==
    /\ driver.pc = "process"
    /\ effects' = Append(effects, Effect("process_raised", StageName(Here), "StageError", NoEvent))
    /\ Goto(RaiseAt(Here, "StageError"))
    /\ NoFault
    /\ UNCHANGED <<call, ops, canceller, cancels, checkpoints, composite, clock, socket>>

\* lines 241-248, then 74-81
NotifyCompletedOk ==
    /\ driver.pc = "notify_completed"
    /\ effects' = Append(effects, Effect("notify_stage_completed", StageName(Here), "-", NoEvent))
    /\ Goto(AfterStage(Here))
    /\ NoFault
    /\ UNCHANGED <<call, ops, canceller, cancels, checkpoints, composite, clock, socket>>

NotifyCompletedFails ==
    /\ driver.pc = "notify_completed"
    /\ Fault
    /\ effects' = Append(effects, Effect("notify_stage_completed_failed", StageName(Here), "-", NoEvent))
    /\ Goto(RaiseAt(Here, "NotifyError"))
    /\ UNCHANGED <<call, ops, canceller, cancels, checkpoints, composite, clock, socket>>

\* lines 260-268: notified, then `raise` re-raises the stage's exception
NotifyFailedOk ==
    /\ driver.pc = "notify_failed"
    /\ effects' = Append(effects, Effect("notify_stage_failed", StageName(Here), driver.exc, NoEvent))
    /\ Goto(OuterHandler(Here, driver.exc))
    /\ NoFault
    /\ UNCHANGED <<call, ops, canceller, cancels, checkpoints, composite, clock, socket>>

NotifyFailedFails ==
    /\ driver.pc = "notify_failed"
    /\ Fault
    /\ effects' = Append(effects, Effect("notify_stage_failed_failed", StageName(Here), "-", NoEvent))
    /\ Goto(RaiseAt(Here, "NotifyError"))
    /\ UNCHANGED <<call, ops, canceller, cancels, checkpoints, composite, clock, socket>>

\* InMemoryCheckpointManager.save_checkpoint: the dict with the entry set
save_checkpoint(store, pipeline_id, checkpoint_data) ==
    [ id \in DOMAIN store \cup {pipeline_id} |->
        IF id = pipeline_id THEN checkpoint_data ELSE store[id] ]

\* InMemoryCheckpointManager.load_checkpoint
load_checkpoint(store, pipeline_id) ==
    IF pipeline_id \in DOMAIN store THEN store[pipeline_id] ELSE NoCheckpoint

\* SaveOk with a store that drops what it is given
SaveOkNothingStored ==
    /\ driver.pc = "save"
    /\ effects' = Append(effects, Effect("save_checkpoint", StageName(Here), "-", NoEvent))
    /\ Goto(NextIteration(Here))
    /\ NoFault
    /\ UNCHANGED <<call, ops, canceller, cancels, checkpoints, composite, clock, socket>>

\* _save_checkpoint (lines 278-288): the store took the checkpoint
SaveOk ==
    /\ driver.pc = "save"
    /\ effects' = Append(effects, Effect("save_checkpoint", StageName(Here), "-", NoEvent))
    /\ checkpoints' = save_checkpoint(checkpoints, pipeline.id, get_checkpoint_data(pipeline))
    /\ Goto(NextIteration(Here))
    /\ NoFault
    /\ UNCHANGED <<call, ops, canceller, cancels, composite, clock, socket>>

\* SaveFails letting the exception of the store out of _save_checkpoint
SaveFailsFatal ==
    /\ driver.pc = "save"
    /\ Fault
    /\ effects' = Append(effects, Effect("save_checkpoint_failed", StageName(Here), "-", NoEvent))
    /\ Goto(OuterHandler(Here, "CheckpointError"))
    /\ UNCHANGED <<call, ops, canceller, cancels, checkpoints, composite, clock, socket>>

\* _save_checkpoint caught an exception and logged it
SaveFails ==
    /\ driver.pc = "save"
    /\ Fault
    /\ effects' = Append(effects, Effect("save_checkpoint_failed", StageName(Here), "-", NoEvent))
    /\ Goto(NextIteration(Here))
    /\ UNCHANGED <<call, ops, canceller, cancels, checkpoints, composite, clock, socket>>

(***************************************************************************)
(* cancel_pipeline of the orchestrator, called by another task             *)
(***************************************************************************)
IdleCanceller ==
    [ pc      |-> "idle",   \* idle, publish
      events  |-> <<>>,
      i       |-> 0,
      outcome |-> "none",   \* how the last call ended: returned / raised
      error   |-> "none" ]

\* lines 176-179 up to the first await
CancelCall ==
    /\ canceller.pc = "idle"
    /\ cancels < MaxCancels
    /\ cancels' = cancels + 1
    /\ \E pipeline_id \in {PipelineId, "unknown"} :
         IF pipeline_id \notin active
         THEN /\ canceller' = [IdleCanceller EXCEPT !.outcome = "returned"]
              /\ UNCHANGED <<pipeline, effects>>
         ELSE LET r == cancel_pipeline(pipeline, "user")
              IN  /\ pipeline' = r.p
                  /\ effects' = Append(effects,
                                    Effect("cancel_pipeline", "-", pipeline.status, NoEvent))
                  /\ canceller' =
                       IF r.err # "none"
                       THEN [IdleCanceller EXCEPT !.outcome = "raised", !.error = r.err]
                       ELSE IF r.p.domain_events = <<>>
                       THEN [IdleCanceller EXCEPT !.outcome = "returned"]
                       ELSE [IdleCanceller EXCEPT !.pc = "publish",
                                                  !.events = r.p.domain_events, !.i = 1]
    /\ UNCHANGED <<call, ops, active, driver, faults, checkpoints, composite, clock, socket>>

CancelPublishOk ==
    /\ canceller.pc = "publish"
    /\ effects' = Append(effects,
                      Effect("publish", "-", "canceller", canceller.events[canceller.i]))
    /\ IF canceller.i < Len(canceller.events)
       THEN /\ canceller' = [canceller EXCEPT !.i = @ + 1]
            /\ UNCHANGED pipeline
       ELSE /\ canceller' = [IdleCanceller EXCEPT !.outcome = "returned"]
            /\ pipeline' = clear_domain_events(pipeline)
    /\ NoFault
    /\ UNCHANGED <<call, ops, active, driver, cancels, checkpoints, composite, clock, socket>>

CancelPublishFails ==
    /\ canceller.pc = "publish"
    /\ Fault
    /\ effects' = Append(effects,
                      Effect("publish_failed", "-", "canceller", canceller.events[canceller.i]))
    /\ canceller' = [IdleCanceller EXCEPT !.outcome = "raised", !.error = "PublishError"]
    /\ UNCHANGED <<pipeline, call, ops, active, driver, cancels, checkpoints, composite, clock, socket>>

(***************************************************************************)
(* resume_pipeline_from_checkpoint (lines 103-172): the aggregate is       *)
(* restored from the snapshot the caller loaded, then driven by the same   *)
(* loop, handlers and finally-block as execute_pipeline.  Before the call  *)
(* `pipeline` holds the stage list and the configuration the restored      *)
(* aggregate is built with, and `checkpoints` the snapshot.                *)
(***************************************************************************)
\* the outputs of the stored results merged in the order of the dict; a stage
\* gets its entry when it first has a result and the stages are run in
\* declared order, so the order of the dict is the declared order
RECURSIVE merged_output_data(_, _)
merged_output_data(p, i) ==
    IF i = 0
    THEN EmptyDict
    ELSE LET result == p.stage_results[p.stage_order[i]]
         IN  IF result.status = "ABSENT"
             THEN merged_output_data(p, i - 1)
             ELSE update(merged_output_data(p, i - 1), result.output_data)

\* lines 290-298
_reconstruct_input_data(p) == merged_output_data(p, Len(p.stage_order))

\* lines 118-134, up to the first await of the loop
BeginResume ==
    /\ driver.pc = "idle"
    /\ LET checkpoint_data == load_checkpoint(checkpoints, PipelineId)
           r == restore_from_checkpoint(checkpoint_data, StagesOf(pipeline),
                                        pipeline.configuration)
           st == [ p |-> r.p,
                   a |-> active \cup {r.p.id},
                   d |-> [driver EXCEPT !.checkpoint_data = checkpoint_data] ]
       IN  IF r.err # "none"
           THEN /\ driver' = [driver EXCEPT !.pc = "done", !.outcome = "raised",
                                            !.error = r.err]
                /\ UNCHANGED <<pipeline, active>>
           ELSE Goto(IF current_stage(r.p) = "None"
                     THEN Finish(st, "returned", "none")
                     ELSE LoopHead([st EXCEPT
                                      !.d.stage = r.p.current_stage_index + 1,
                                      !.d.input_data = _reconstruct_input_data(r.p)]))
    /\ UNCHANGED <<call, ops, canceller, effects, faults, cancels, checkpoints, composite, clock, socket>>

\* results a snapshot can hold: COMPLETED, the FAILED result fail_stage
\* writes, and a FAILED result a stage body returned with the output it had
\* produced so far
StoredResults(stage_name) ==
    StageResults(stage_name) \cup {StageResult("FAILED", "boom", FALSE, [stage |-> stage_name])}

\* snapshots of a pipeline over `stages` that a caller can hand to
\* resume_pipeline_from_checkpoint
Checkpoints(stages) ==
    { [ pipeline_id         |-> PipelineId,
        video_id            |-> VideoId,
        status              |-> status,
        current_stage_index |-> index,
        stage_results       |-> stage_results,
        retry_counts        |-> EmptyDict,
        checkpoint_data     |-> {} ] :
      status \in {"RUNNING", "COMPLETED", "CANCELLED"},
      index \in 0..Len(stages),
      stage_results \in
          UNION { { f \in [names -> UNION { StoredResults(n) : n \in names }] :
                      \A n \in names : f[n] \in StoredResults(n) } :
                  names \in SUBSET StageNames(stages) } }

(***************************************************************************)
(* Wall-clock time: a second passes while execute_pipeline is suspended at *)
(* an await.  The orchestrator holds no timer, so nothing else happens.    *)
(***************************************************************************)
Tick ==
    /\ driver.pc \notin {"idle", "done"}
    /\ clock < MaxTime
    /\ clock' = clock + 1
    /\ UNCHANGED <<pipeline, call, ops, active, driver, canceller, effects, faults,
                   cancels, checkpoints, composite, socket>>

(***************************************************************************)
(* WebSocketProgressNotifier: _broadcast_message iterates over the live    *)
(* set self._clients and awaits client.send inside the loop; at each of    *)
(* these awaits _handle_client tasks may add a client (a new connection)   *)
(* or discard one (its connection ended).  The iterator of a Python set    *)
(* remembers the size of the set when it was created and raises            *)
(* RuntimeError when asked for the next element of a set whose size        *)
(* differs; when the size is the same it walks on through the table, so a  *)
(* client added meanwhile is yielded or not, depending on its slot.        *)
(***************************************************************************)
ClientPool == 1..MaxClients

IdleSocket(clients) ==
    [ pc       |-> "idle",      \* idle, send, done
      _clients |-> clients,     \* self._clients
      used     |-> 0,           \* size of the set when the iterator was created
      todo     |-> {},          \* clients the iterator has yet to yield
      client   |-> 0,           \* the loop variable
      disconnected_clients |-> {},
      outcome  |-> "none",      \* returned / raised
      error    |-> "none",
      initial  |-> {},          \* history: clients connected when the broadcast began
      sent     |-> {},          \* history: clients whose send returned
      gone     |-> {},          \* history: clients discarded by _handle_client
      churn    |-> 0 ]          \* history: connections and disconnections so far

\* lines 243-245: the loop is over
BroadcastReturns(s) ==
    [s EXCEPT !.pc = "done", !.outcome = "returned",
              !._clients = @ \ s.disconnected_clients]

\* line 235: the for statement asks the iterator for the next client
NextClientOf(s, c) ==
    [s EXCEPT !.pc = "send", !.client = c, !.todo = @ \ {c}]

NextClient(s) ==
    IF Cardinality(s._clients) # s.used
    THEN {[s EXCEPT !.pc = "done", !.outcome = "raised", !.error = "RuntimeError"]}
    ELSE IF s.todo = {}
    THEN {BroadcastReturns(s)}
    ELSE {NextClientOf(s, c) : c \in s.todo}

\* lines 225-236: _broadcast_message is called, up to its first await
BroadcastCall ==
    /\ socket.pc = "idle"
    /\ IF socket._clients = {}
       THEN socket' = [socket EXCEPT !.pc = "done", !.outcome = "returned"]
       ELSE socket' \in NextClient([socket EXCEPT !.used = Cardinality(socket._clients),
                                                  !.todo = socket._clients,
                                                  !.initial = socket._clients])
    /\ UNCHANGED notifierVars

\* line 237: client.send returned
SendReturns ==
    /\ socket.pc = "send"
    /\ socket' \in NextClient([socket EXCEPT !.sent = @ \cup {socket.client}])
    /\ UNCHANGED notifierVars

\* lines 238-242: client.send raised ConnectionClosed or another Exception
SendRaises ==
    /\ socket.pc = "send"
    /\ socket' \in NextClient([socket EXCEPT
                                 !.disconnected_clients = @ \cup {socket.client}])
    /\ UNCHANGED notifierVars

\* _handle_client, line 114: a new connection is added while the broadcast awaits
ClientConnects ==
    /\ socket.pc = "send"
    /\ socket.churn < MaxChurn
    /\ \E c \in ClientPool \ (socket._clients \cup socket.gone) :
         \E yielded \in BOOLEAN :
           socket' = [socket EXCEPT !._clients = @ \cup {c},
                                    !.todo = IF yielded THEN @ \cup {c} ELSE @,
                                    !.churn = @ + 1]
    /\ UNCHANGED notifierVars

\* _handle_client, lines 138-142: a connection ended while the broadcast awaits
ClientDisconnects ==
    /\ socket.pc = "send"
    /\ socket.churn < MaxChurn
    /\ \E c \in socket._clients :
         socket' = [socket EXCEPT !._clients = @ \ {c},
                                  !.todo = @ \ {c},
                                  !.gone = @ \cup {c},
                                  !.churn = @ + 1]
    /\ UNCHANGED notifierVars

(***************************************************************************)
(* CompositeProgressNotifier: each operation awaits asyncio.gather over    *)
(* the list [child.op(...) for child in notifiers], with                   *)
(* return_exceptions=True.                                                 *)
(* The list comprehension calls every child's operation, which creates its *)
(* coroutine; gather runs the coroutines as tasks, in any interleaving,    *)
(* and returns when all of them have ended.                                *)
(***************************************************************************)
NotifyOps == {"notify_stage_started", "notify_stage_completed", "notify_stage_failed"}

IdleComposite(n) ==
    [ notifiers |-> n,                          \* number of children, named 1..n
      pc        |-> "idle",                     \* idle, gather
      op        |-> "-",                        \* the operation in progress
      tasks     |-> [i \in 1..n |-> "none"],    \* pending, returned, raised
      invoked   |-> [i \in 1..n |-> [o \in NotifyOps |-> 0]],
                                                \* history: calls child i received
      notified  |-> [o \in NotifyOps |-> 0],    \* history: calls the composite received
      outcome   |-> "none" ]                    \* how its last call ended

Notifications == composite.notified["notify_stage_started"]
                 + composite.notified["notify_stage_completed"]
                 + composite.notified["notify_stage_failed"]

\* lines 304-344: an operation of the composite is called
CompositeNotify ==
    /\ composite.pc = "idle"
    /\ Notifications < MaxNotifications
    /\ \E op \in NotifyOps :
         composite' = [composite EXCEPT
                         !.pc = "gather",
                         !.op = op,
                         !.outcome = "none",
                         !.notified[op] = @ + 1,
                         !.tasks = [i \in 1..composite.notifiers |-> "pending"],
                         !.invoked = [i \in 1..composite.notifiers |->
                                        [composite.invoked[i] EXCEPT ![op] = @ + 1]]]
    /\ UNCHANGED orchestratorVars

\* the coroutine of a child ran to its end
ChildReturns ==
    /\ composite.pc = "gather"
    /\ \E i \in 1..composite.notifiers :
         /\ composite.tasks[i] = "pending"
         /\ composite' = [composite EXCEPT !.tasks[i] = "returned"]
    /\ UNCHANGED orchestratorVars

\* ChildRaises under a gather without return_exceptions: the first
\* exception is raised to the awaiting operation
ChildRaisesPropagating ==
    /\ composite.pc = "gather"
    /\ \E i \in 1..composite.notifiers :
         /\ composite.tasks[i] = "pending"
         /\ composite' = [composite EXCEPT !.tasks[i] = "raised", !.pc = "idle",
                                           !.outcome = "raised"]
    /\ UNCHANGED orchestratorVars

\* the coroutine of a child raised: return_exceptions=True makes the
\* exception the result of its task
ChildRaises ==
    /\ composite.pc = "gather"
    /\ \E i \in 1..composite.notifiers :
         /\ composite.tasks[i] = "pending"
         /\ composite' = [composite EXCEPT !.tasks[i] = "raised"]
    /\ UNCHANGED orchestratorVars

\* every task has ended: gather returns the list of results, which the
\* operation drops
GatherReturns ==
    /\ composite.pc = "gather"
    /\ \A i \in 1..composite.notifiers : composite.tasks[i] # "pending"
    /\ composite' = [composite EXCEPT !.pc = "idle", !.outcome = "returned"]
    /\ UNCHANGED orchestratorVars

(***************************************************************************)
(* Specifications                                                          *)
(***************************************************************************)
\* nothing has been called yet on the aggregate `p` and the orchestrator
Idle(p) ==
    /\ pipeline = p
    /\ call = [op |-> "-", stage_name |-> "-", arg |-> "-", err |-> "none", streak |-> 0]
    /\ ops = 0
    /\ active = {}
    /\ driver = IdleDriver
    /\ canceller = IdleCanceller
    /\ effects = <<>>
    /\ faults = 0
    /\ cancels = 0
    /\ clock = 0

Init ==
    /\ \E c \in Configurations, s \in StageLists : Idle(Pipeline(c, s))
    /\ checkpoints = EmptyDict
    /\ composite = IdleComposite(0)
    /\ socket = IdleSocket({})

NextAgg ==
    \/ AggStart
    \/ AggCompleteStage
    \/ AggFailStage
    \/ AggCompletePipeline
    \/ AggCancel
    \/ AggClearEvents

SpecAgg == Init /\ [][NextAgg]_vars

Next ==
    \/ Begin
    \/ PublishOk
    \/ PublishFails
    \/ NotifyStartedOk
    \/ NotifyStartedFails
    \/ ProcessReturns
    \/ ProcessRaises
    \/ NotifyCompletedOk
    \/ NotifyCompletedFails
    \/ NotifyFailedOk
    \/ NotifyFailedFails
    \/ SaveOk
    \/ SaveFails
    \/ CancelCall
    \/ CancelPublishOk
    \/ CancelPublishFails

Spec == Init /\ [][Next]_vars

InitNotify ==
    /\ Idle(Pipeline(PipelineConfiguration(0, FALSE), <<>>))
    /\ checkpoints = EmptyDict
    /\ \E n \in 0..MaxChildren : composite = IdleComposite(n)
    /\ socket = IdleSocket({})

NextNotify ==
    \/ CompositeNotify
    \/ ChildReturns
    \/ ChildRaises
    \/ GatherReturns

SpecNotify == InitNotify /\ [][NextNotify]_vars

InitResume ==
    /\ \E c \in Configurations, s \in {PlainStages(1), PlainStages(2), ChainStages(2)} :
         /\ Idle(Pipeline(c, s))
         /\ \E checkpoint_data \in Checkpoints(s) :
              checkpoints = save_checkpoint(EmptyDict, PipelineId, checkpoint_data)
    /\ composite = IdleComposite(0)
    /\ socket = IdleSocket({})

NextResume ==
    \/ BeginResume
    \/ PublishOk
    \/ PublishFails
    \/ NotifyStartedOk
    \/ NotifyStartedFails
    \/ ProcessReturns
    \/ ProcessRaises
    \/ NotifyCompletedOk
    \/ NotifyCompletedFails
    \/ NotifyFailedOk
    \/ NotifyFailedFails
    \/ SaveOk
    \/ SaveFails
    \/ CancelCall
    \/ CancelPublishOk
    \/ CancelPublishFails

SpecResume == InitResume /\ [][NextResume]_vars

NextTimed ==
    \/ Next
    \/ Tick

SpecTimed == Init /\ [][NextTimed]_vars

InitBroadcast ==
    /\ Idle(Pipeline(PipelineConfiguration(0, FALSE), <<>>))
    /\ checkpoints = EmptyDict
    /\ composite = IdleComposite(0)
    /\ \E clients \in SUBSET ClientPool : socket = IdleSocket(clients)

NextBroadcast ==
    \/ BroadcastCall
    \/ SendReturns
    \/ SendRaises
    \/ ClientConnects
    \/ ClientDisconnects

SpecBroadcast == InitBroadcast /\ [][NextBroadcast]_vars

(***************************************************************************)
(* Vocabulary of the properties                                            *)
(***************************************************************************)
Terminal == {"COMPLETED", "FAILED", "CANCELLED"}

\* the events handed to EventPublisher.publish, in the order they were published
Published ==
    LET pubs == SelectSeq(effects, LAMBDA x : x.kind = "publish")
    IN  [k \in 1..Len(pubs) |-> pubs[k].event]

\* an event as <<type, stage>>
Shape(seq) == [k \in 1..Len(seq) |-> <<seq[k].type, seq[k].stage_name>>]

\* positions of the effects log holding a call of `kind` for `stage_name`
At(kind, stage_name) ==
    { k \in 1..Len(effects) : effects[k].kind = kind /\ effects[k].stage_name = stage_name }

\* positions of the effects log where a StageCompleted / StageFailed event of
\* `stage_name` was published
PublishedAt(type, stage_name) ==
    { k \in 1..Len(effects) : /\ effects[k].kind = "publish"
                              /\ effects[k].event.type = type
                              /\ effects[k].event.stage_name = stage_name }

\* the body of stage `stage_name` returned a result with status COMPLETED
ReturnedCompleted(stage_name) ==
    \E k \in At("process_returned", stage_name) : effects[k].info = "COMPLETED"

\* cancel_pipeline was applied to the aggregate while it was RUNNING
CancelledWhileRunning ==
    \E k \in 1..Len(effects) :
        effects[k].kind = "cancel_pipeline" /\ effects[k].info = "RUNNING"

\* execute_pipeline has ended in a run where every stage body returned
\* COMPLETED, no collaborator raised and nobody cancelled
HappyRunEnded ==
    /\ driver.pc = "done"
    /\ faults = 0
    /\ cancels = 0
    /\ \A k \in 1..Len(effects) :
          /\ effects[k].kind # "process_raised"
          /\ effects[k].kind = "process_returned" => effects[k].info = "COMPLETED"
    /\ \A k \in 1..Len(pipeline.emitted) : pipeline.emitted[k].type # "StageFailed"

(***************************************************************************)
(* C1: under any sequence of aggregate operations the status changes only  *)
(* along PENDING->RUNNING, PENDING->CANCELLED, RUNNING->COMPLETED,         *)
(* RUNNING->FAILED, RUNNING->CANCELLED; a terminal status never changes.   *)
(***************************************************************************)
StatusEdges ==
    { <<"PENDING", "RUNNING">>, <<"PENDING", "CANCELLED">>, <<"RUNNING", "COMPLETED">>,
      <<"RUNNING", "FAILED">>, <<"RUNNING", "CANCELLED">> }

C1_StatusFollowsEdges ==
    [][ \/ pipeline'.status = pipeline.status
        \/ <<pipeline.status, pipeline'.status>> \in StatusEdges ]_vars

(***************************************************************************)
(* C2: once the status is COMPLETED, FAILED or CANCELLED, every call of    *)
(* start, completeStage or failStage raises and leaves status,             *)
(* currentStageIndex, stageResults, retryCounts and pendingEvents as they  *)
(* were.                                                                   *)
(***************************************************************************)
C2_TerminalRejectsMutation ==
    [][ ( /\ pipeline.status \in Terminal
          /\ ops' = ops + 1
          /\ call'.op \in {"start_processing", "complete_stage", "fail_stage"} )
        => ( /\ call'.err # "none"
             /\ pipeline'.status = pipeline.status
             /\ pipeline'.current_stage_index = pipeline.current_stage_index
             /\ pipeline'.stage_results = pipeline.stage_results
             /\ pipeline'.retry_counts = pipeline.retry_counts
             /\ pipeline'.domain_events = pipeline.domain_events ) ]_vars

(***************************************************************************)
(* C3: the events handed to the publisher come in the order the aggregate  *)
(* emitted them, none of them twice, whatever the interleaving of the      *)
(* driving task with cancel_pipeline calls.                                *)
(***************************************************************************)
C3_PublishOrderIsEmissionOrder ==
    \A i, j \in 1..Len(Published) : i < j => Published[i].id < Published[j].id

HappySequence(p) ==
    <<  <<"PipelineStarted", "-">>  >>
    \o [i \in 1..Len(p.stage_order) |-> <<"StageCompleted", p.stage_order[i]>>]
    \o <<  <<"PipelineCompleted", "-">>  >>

C5_HappyPathEventSequence ==
    HappyRunEnded =>
        /\ pipeline.status = "COMPLETED"
        /\ Shape(Published) = HappySequence(pipeline)

(***************************************************************************)
(* C6: when a stage body raises or its dependencies are not met, exactly   *)
(* one fail_stage is recorded for that stage, its StageFailed event is     *)
(* published, then notify_stage_failed is sent, then execute_pipeline      *)
(* raises; the stage is not invoked again and no later stage is invoked.   *)
(***************************************************************************)
\* stage n failed in this run: its body raised, or it was reached with
\* dependencies unmet (the handler then holds RuntimeError)
StageFailedInRun(n) ==
    \/ At("process_raised", n) # {}
    \/ \E k \in 1..Len(pipeline.emitted) :
          /\ pipeline.emitted[k].type = "StageFailed"
          /\ pipeline.emitted[k].stage_name = n
          /\ pipeline.emitted[k].info = "RuntimeError"

StageFailedEmitted(n) ==
    { k \in 1..Len(pipeline.emitted) :
        pipeline.emitted[k].type = "StageFailed" /\ pipeline.emitted[k].stage_name = n }

C6_StageFailureHandledOnce ==
    \A n \in pipeline.stages :
        (driver.pc = "done" /\ faults = 0 /\ cancels = 0 /\ StageFailedInRun(n)) =>
            /\ Cardinality(StageFailedEmitted(n)) = 1
            /\ \E i \in PublishedAt("StageFailed", n), j \in At("notify_stage_failed", n) : i < j
            /\ driver.outcome = "raised"
            /\ Cardinality(At("process", n)) <= 1
            /\ \A k \in 1..Len(effects) :
                  effects[k].kind = "process" =>
                      \A j \in At("notify_stage_failed", n) : k < j

(***************************************************************************)
(* C7: a StageResult with status FAILED returned by Stage.process is       *)
(* recorded through fail_stage: the retry count of the stage goes up and   *)
(* a StageFailed event, not a StageCompleted event, is published for it.   *)
(***************************************************************************)
C7_FailedResultGoesThroughFailStage ==
    \A k \in 1..Len(effects) :
        (effects[k].kind = "process_returned" /\ effects[k].info = "FAILED") =>
            /\ \A j \in PublishedAt("StageCompleted", effects[k].stage_name) :
                  effects[j].event.info # "FAILED"
            /\ StageFailedEmitted(effects[k].stage_name) # {}

(***************************************************************************)
(* C8: execute_pipeline never ends, by return or by raising, leaving the   *)
(* pipeline RUNNING: it ends with status COMPLETED, FAILED or CANCELLED.   *)
(***************************************************************************)
C8_EndsInTerminalState ==
    driver.pc = "done" => pipeline.status \in Terminal

(***************************************************************************)
(* C9: after cancel_pipeline was applied to the RUNNING pipeline at a       *)
(* suspension point of the driving task, the final status of the pipeline  *)
(* is CANCELLED (stated for the runs in which no collaborator raises).     *)
(***************************************************************************)
C9_CancelledRunEndsCancelled ==
    (driver.pc = "done" /\ faults = 0 /\ CancelledWhileRunning)
        => pipeline.status = "CANCELLED"

(***************************************************************************)
(* C10: cancel_pipeline never raises to its caller because of the state    *)
(* the pipeline is in (unknown id, RUNNING, or still active but already    *)
(* COMPLETED, FAILED or CANCELLED).                                        *)
(***************************************************************************)
C10_CancelNeverRaises ==
    canceller.outcome = "raised" => canceller.error = "PublishError"

(***************************************************************************)
(* C11: from a RUNNING pipeline with retry_counts[n] = 0 and max_retries    *)
(* = N, after k <= N fail_stage(n) calls in a row the status is still      *)
(* RUNNING, and after the (N+1)-th the status is FAILED and                *)
(* stage_results[n].status is FAILED.                                      *)
(***************************************************************************)
C11_FailsAfterMaxRetriesPlusOne ==
    call.streak > 0 =>
        /\ call.streak <= pipeline.configuration.max_retries => pipeline.status = "RUNNING"
        /\ call.streak = pipeline.configuration.max_retries + 1 =>
              /\ pipeline.status = "FAILED"
              /\ pipeline.stage_results[call.stage_name].status = "FAILED"

C11_Witness ==
    /\ pipeline.configuration.max_retries = MaxRetries
    /\ call.streak = MaxRetries + 1
    /\ pipeline.status = "FAILED"

(***************************************************************************)
(* C12: after every aggregate operation retry_counts[n] <= max_retries + 1  *)
(* for every stage n, and whenever retry_counts[n] = max_retries + 1 the    *)
(* status is FAILED and stage_results[n].status is FAILED.                 *)
(***************************************************************************)
C12_RetryCountBounded ==
    \A n \in pipeline.stages :
        /\ pipeline.retry_counts[n] <= pipeline.configuration.max_retries + 1
        /\ pipeline.retry_counts[n] = pipeline.configuration.max_retries + 1 =>
              /\ pipeline.status = "FAILED"
              /\ pipeline.stage_results[n].status = "FAILED"

\* positions, in the history of emitted events, of the StageFailed events of n
FailedEvents(p, n) ==
    { k \in 1..Len(p.emitted) :
        p.emitted[k].type = "StageFailed" /\ p.emitted[k].stage_name = n }

(***************************************************************************)
(* C13 (as claimed): at every observation point the number of StageFailed  *)
(* events emitted so far for stage n equals retry_counts[n].               *)
(***************************************************************************)
C13_FailedEventsEqualRetryCount ==
    \A n \in pipeline.stages :
        Cardinality(FailedEvents(pipeline, n)) = pipeline.retry_counts[n]

(***************************************************************************)
(* C13 (amended): retry_counts[n] counts the StageFailed events of n       *)
(* emitted since it was last reset: an operation either emits one          *)
(* StageFailed event of n and adds one to retry_counts[n], or emits none   *)
(* and leaves retry_counts[n] alone, or emits none and resets it to 0, and *)
(* the last only in complete_stage(n, result) with a COMPLETED result.  So *)
(* the number of StageFailed events of n is never below retry_counts[n].   *)
(***************************************************************************)
C13_RetryCountCountsFailuresSinceReset ==
    /\ [](\A n \in pipeline.stages :
            Cardinality(FailedEvents(pipeline, n)) >= pipeline.retry_counts[n])
    /\ [][ \A n \in pipeline.stages :
             LET added == { k \in (Len(pipeline.emitted) + 1)..Len(pipeline'.emitted) :
                              /\ pipeline'.emitted[k].type = "StageFailed"
                              /\ pipeline'.emitted[k].stage_name = n }
                 r     == pipeline.retry_counts[n]
                 r2    == pipeline'.retry_counts[n]
             IN  \/ Cardinality(added) = 1 /\ r2 = r + 1
                 \/ added = {} /\ r2 = r
                 \/ /\ added = {} /\ r2 = 0
                    /\ call'.op = "complete_stage"
                    /\ call'.stage_name = n
                    /\ call'.arg = "COMPLETED" ]_vars

C13_Witness ==
    \E n \in pipeline.stages :
        /\ call.op = "complete_stage" /\ call.stage_name = n /\ call.err = "none"
        /\ Cardinality(FailedEvents(pipeline, n)) = 1
        /\ pipeline.retry_counts[n] = 0

(***************************************************************************)
(* C14: whenever the status is COMPLETED, every declared stage has an       *)
(* entry in stage_results whose status is COMPLETED, and current_stage is   *)
(* None.                                                                   *)
(***************************************************************************)
C14_CompletedHasAllStagesCompleted ==
    pipeline.status = "COMPLETED" =>
        /\ \A n \in pipeline.stages : pipeline.stage_results[n].status = "COMPLETED"
        /\ current_stage(pipeline) = "None"

C14_Witness ==
    /\ pipeline.status = "COMPLETED"
    /\ Len(pipeline.stage_order) = MaxStages
    /\ \A n \in pipeline.stages : pipeline.stage_results[n].status = "COMPLETED"

C16_CompletedStageHasCompletedDependencies ==
    \A n \in pipeline.stages :
        pipeline.stage_results[n].status = "COMPLETED" =>
            \A dep \in pipeline.dependencies[n] :
                /\ dep \in pipeline.stages
                /\ pipeline.stage_results[dep].status = "COMPLETED"

(***************************************************************************)
(* C17: complete_stage(name, r) on a RUNNING pipeline with a declared name  *)
(* adds one to current_stage_index if r.status is COMPLETED and name is    *)
(* the stage at current_stage_index, and leaves the index alone otherwise. *)
(***************************************************************************)
C17_AdvancesOnlyForCurrentStage ==
    [][ ( /\ ops' = ops + 1
          /\ call'.op = "complete_stage"
          /\ pipeline.status = "RUNNING"
          /\ call'.stage_name \in pipeline.stages )
        => pipeline'.current_stage_index =
              IF call'.arg = "COMPLETED" /\ call'.stage_name = current_stage(pipeline)
              THEN pipeline.current_stage_index + 1
              ELSE pipeline.current_stage_index ]_vars

(***************************************************************************)
(* C18: after every aggregate operation current_stage_index <= |stages|,    *)
(* and whenever it equals |stages| every declared stage has a COMPLETED     *)
(* entry in stage_results.                                                 *)
(***************************************************************************)
C18_IndexWithinStages ==
    /\ pipeline.current_stage_index <= Len(pipeline.stage_order)
    /\ pipeline.current_stage_index = Len(pipeline.stage_order) =>
          \A n \in pipeline.stages : pipeline.stage_results[n].status = "COMPLETED"

(***************************************************************************)
(* C19: after every aggregate operation progress_percentage is 100 times    *)
(* the number of declared stages with a COMPLETED entry divided by the     *)
(* number of declared stages, is 0 for an empty stage list, and lies       *)
(* between 0 and 100.                                                      *)
(***************************************************************************)
C19_ProgressIsShareOfCompletedStages ==
    LET v == progress_percentage(pipeline)
        N == Len(pipeline.stage_order)
        K == Cardinality({ n \in pipeline.stages :
                             pipeline.stage_results[n].status = "COMPLETED" })
    IN  /\ v.den > 0
        /\ N = 0 => v.num = 0
        /\ N > 0 => v.num * N = 100 * K * v.den
        /\ 0 <= v.num
        /\ v.num <= 100 * v.den

C19_Witness ==
    /\ call.op = "fail_stage"
    /\ progress_percentage(pipeline).num > 0
    /\ progress_percentage(pipeline).num < 100 * progress_percentage(pipeline).den
    /\ \E n \in pipeline.stages : pipeline.stage_results[n].status = "FAILED"

FailedKinds ==
    { "publish_failed", "save_checkpoint_failed", "notify_stage_started_failed",
      "notify_stage_completed_failed", "notify_stage_failed_failed" }

\* execute_pipeline has ended in a run where every dependency is a declared
\* stage, every stage body that was called returned COMPLETED, nobody
\* cancelled, and the only collaborator calls that raised are of `kinds`
RunEndedWithOnlyFailuresOf(kinds) ==
    /\ driver.pc = "done"
    /\ cancels = 0
    /\ \A n \in pipeline.stages : pipeline.dependencies[n] \subseteq pipeline.stages
    /\ \A k \in 1..Len(effects) :
          /\ effects[k].kind # "process_raised"
          /\ effects[k].kind = "process_returned" => effects[k].info = "COMPLETED"
          /\ effects[k].kind \in FailedKinds => effects[k].kind \in kinds

\* the outcome of the run in which every stage succeeds and no collaborator
\* raises: every stage body called once, every emitted event published once
\* and in order, status COMPLETED, the call returns
SameAsUndisturbedRun ==
    /\ driver.outcome = "returned"
    /\ pipeline.status = "COMPLETED"
    /\ \A n \in pipeline.stages :
          /\ Cardinality(At("process", n)) = 1
          /\ pipeline.stage_results[n].status = "COMPLETED"
          /\ pipeline.retry_counts[n] = 0
    /\ Published = pipeline.emitted

(***************************************************************************)
(* C21: a failing checkpoint save changes nothing: the step that follows   *)
(* the failed save leaves the pipeline, the driving task and the active    *)
(* set exactly where a successful save leaves them, and a run whose only   *)
(* failures are failed saves executes every stage, ends COMPLETED and      *)
(* publishes the same events.                                              *)
(***************************************************************************)
C21_SaveFailureIsNotFatal ==
    /\ [](RunEndedWithOnlyFailuresOf({"save_checkpoint_failed"}) => SameAsUndisturbedRun)
    /\ [][ ( /\ Len(effects') = Len(effects) + 1
             /\ effects'[Len(effects')].kind = "save_checkpoint_failed" )
           => /\ pipeline' = NextIteration(Here).p
              /\ driver' = NextIteration(Here).d
              /\ active' = NextIteration(Here).a ]_vars

C21_Witness ==
    /\ RunEndedWithOnlyFailuresOf({"save_checkpoint_failed"})
    /\ Len(pipeline.stage_order) = MaxStages
    /\ At("save_checkpoint_failed", pipeline.stage_order[1]) # {}
    /\ pipeline.status = "COMPLETED"

\* positions of the effects log where EventPublisher.publish raised under
\* execute_pipeline
DriverPublishFailedAt ==
    { k \in 1..Len(effects) : effects[k].kind = "publish_failed" /\ effects[k].info = "driver" }

(***************************************************************************)
(* C22: once EventPublisher.publish raised at a flush of execute_pipeline, *)
(* no stage body is invoked any more and execute_pipeline ends by raising. *)
(***************************************************************************)
C22_PublishFailureAborts ==
    \A k \in 1..Len(effects) :
        (effects[k].kind = "publish_failed" /\ effects[k].info = "driver")
        => /\ \A j \in (k+1)..Len(effects) : effects[j].kind # "process"
           /\ driver.pc = "done" => driver.outcome = "raised"

C22_Witness ==
    /\ driver.pc = "done"
    /\ driver.outcome = "raised"
    /\ Len(pipeline.stage_order) = MaxStages
    /\ At("process", pipeline.stage_order[1]) # {}
    /\ At("process", pipeline.stage_order[MaxStages]) = {}
    /\ \E k \in DriverPublishFailedAt : effects[k].event.type = "StageCompleted"

NotifierFailedKinds ==
    { "notify_stage_started_failed", "notify_stage_completed_failed",
      "notify_stage_failed_failed" }

(***************************************************************************)
(* C23: a ProgressNotifier operation that raises does not change the       *)
(* outcome: a run whose only failures are failed notifications ends with   *)
(* the status, stage results, retry counts and published events of the     *)
(* run in which the notifier succeeds.                                     *)
(***************************************************************************)
C23_NotifierFailureChangesNothing ==
    RunEndedWithOnlyFailuresOf(NotifierFailedKinds) => SameAsUndisturbedRun

(***************************************************************************)
(* C24: for each notification through a Composite notifier every child is  *)
(* invoked exactly once, also when other children raise: each child has    *)
(* received each operation as often as the composite has, the operation    *)
(* of the composite ends only when every child's call has ended, and it    *)
(* never ends by raising.                                                  *)
(***************************************************************************)
C24_CompositeInvokesEveryChildOnce ==
    /\ \A i \in 1..composite.notifiers : composite.invoked[i] = composite.notified
    /\ composite.outcome # "raised"
    /\ composite.outcome = "returned"
         => \A i \in 1..composite.notifiers : composite.tasks[i] \in {"returned", "raised"}

C24_Witness ==
    /\ composite.outcome = "returned"
    /\ composite.notifiers = MaxChildren
    /\ composite.tasks[1] = "raised"
    /\ composite.tasks[MaxChildren] = "returned"
    /\ composite.invoked[MaxChildren][composite.op] = 1

(***************************************************************************)
(* C25: once a result with status COMPLETED was recorded for a stage and   *)
(* the checkpoint save that follows that stage succeeded, the snapshot     *)
(* load_checkpoint returns for the pipeline shows that stage COMPLETED.    *)
(***************************************************************************)
C25_SavedCheckpointShowsStageCompleted ==
    \A k \in 1..Len(effects) :
        ( /\ effects[k].kind = "save_checkpoint"
          /\ \E j \in 1..k : /\ effects[j].kind = "process_returned"
                              /\ effects[j].stage_name = effects[k].stage_name
                              /\ effects[j].info = "COMPLETED" )
        => LET snapshot == load_checkpoint(checkpoints, pipeline.id)
           IN  /\ pipeline.id \in DOMAIN checkpoints
               /\ effects[k].stage_name \in DOMAIN snapshot.stage_results
               /\ snapshot.stage_results[effects[k].stage_name].status = "COMPLETED"

C25_Witness ==
    /\ Len(pipeline.stage_order) = MaxStages
    /\ At("save_checkpoint", pipeline.stage_order[1]) # {}
    /\ At("save_checkpoint", pipeline.stage_order[MaxStages]) # {}
    /\ ReturnedCompleted(pipeline.stage_order[1])
    /\ load_checkpoint(checkpoints, pipeline.id).stage_results[pipeline.stage_order[1]].status
         = "COMPLETED"

ProcessAt == { k \in 1..Len(effects) : effects[k].kind = "process" }

\* the stage at position i of the declared order has a COMPLETED result in
\* the snapshot
CompletedIn(checkpoint_data, stage_name) ==
    /\ stage_name \in DOMAIN checkpoint_data.stage_results
    /\ checkpoint_data.stage_results[stage_name].status = "COMPLETED"

(***************************************************************************)
(* C27: resume_pipeline_from_checkpoint calls the bodies of exactly the    *)
(* stages at positions >= the restored current_stage_index, each once and  *)
(* in declared order, never the body of a stage the snapshot holds as      *)
(* COMPLETED, and publishes no PipelineStarted; when the restored index is *)
(* the number of stages it calls no body and returns.                      *)
(***************************************************************************)
C27_ResumeRunsExactlyTheRemainingStages ==
    driver.checkpoint_data # NoCheckpoint =>
        LET restored == driver.checkpoint_data
            order    == pipeline.stage_order
        IN  /\ \A i \in 1..Len(order) :
                  /\ Cardinality(At("process", order[i])) <= 1
                  /\ i <= restored.current_stage_index => At("process", order[i]) = {}
                  /\ CompletedIn(restored, order[i]) => At("process", order[i]) = {}
            /\ \A j, k \in ProcessAt :
                  j < k => \E a, b \in 1..Len(order) :
                              a < b /\ order[a] = effects[j].stage_name
                                    /\ order[b] = effects[k].stage_name
            /\ \A k \in 1..Len(effects) :
                  effects[k].kind = "publish" => effects[k].event.type # "PipelineStarted"
            /\ restored.current_stage_index = Len(order)
                  => /\ ProcessAt = {}
                     /\ driver.pc = "done" /\ driver.outcome = "returned"
            /\ ( /\ RunEndedWithOnlyFailuresOf({})
                  /\ restored.status = "RUNNING"
                  /\ \A i \in 1..Len(order) : pipeline.dependencies[order[i]] = {} )
                  => \A i \in 1..Len(order) :
                        i > restored.current_stage_index => At("process", order[i]) # {}

RECURSIVE completed_output_data(_, _, _)
\* the outputs of the COMPLETED results of a snapshot merged in declared order
completed_output_data(checkpoint_data, order, i) ==
    IF i = 0
    THEN EmptyDict
    ELSE IF CompletedIn(checkpoint_data, order[i])
    THEN update(completed_output_data(checkpoint_data, order, i - 1),
                checkpoint_data.stage_results[order[i]].output_data)
    ELSE completed_output_data(checkpoint_data, order, i - 1)

(***************************************************************************)
(* C28: the input data the first resumed stage is called with is the       *)
(* merge, in declared stage order, of the output data of exactly the       *)
(* results the snapshot holds with status COMPLETED.                       *)
(***************************************************************************)
C28_ResumeInputIsOutputOfCompletedStages ==
    ( /\ driver.checkpoint_data # NoCheckpoint
      /\ driver.pc = "process"
      /\ Cardinality(ProcessAt) = 1 )
    => driver.input_data
         = completed_output_data(driver.checkpoint_data, pipeline.stage_order,
                                 Len(pipeline.stage_order))

(***************************************************************************)
(* C29: no pipeline is RUNNING later than timeout_seconds after            *)
(* execute_pipeline started it: at the timeout the orchestrator cancels    *)
(* it with reason "timeout".                                               *)
(***************************************************************************)
C29_NotRunningPastTimeout ==
    pipeline.status = "RUNNING" => clock <= pipeline.configuration.timeout_seconds

(***************************************************************************)
(* C30: cancel_pipeline on a COMPLETED, FAILED or CANCELLED pipeline       *)
(* raises, emits no event and leaves the status as it was; on a PENDING    *)
(* or RUNNING pipeline it sets CANCELLED and emits exactly one             *)
(* PipelineCancelled.                                                      *)
(***************************************************************************)
C30_CancelOnlyBeforeTerminal ==
    [][ (ops' = ops + 1 /\ call'.op = "cancel_pipeline")
        => IF pipeline.status \in Terminal
           THEN /\ call'.err # "none"
                /\ pipeline'.emitted = pipeline.emitted
                /\ pipeline'.status = pipeline.status
           ELSE /\ call'.err = "none"
                /\ pipeline'.status = "CANCELLED"
                /\ Len(pipeline'.emitted) = Len(pipeline.emitted) + 1
                /\ SubSeq(pipeline'.emitted, 1, Len(pipeline.emitted)) = pipeline.emitted
                /\ pipeline'.emitted[Len(pipeline'.emitted)].type = "PipelineCancelled" ]_vars

(***************************************************************************)
(* C31: an aggregate operation called outside its precondition raises and  *)
(* changes nothing.  For every step of the aggregate that is               *)
(* start_processing with a status other than PENDING, complete_stage with  *)
(* a status other than RUNNING or an undeclared stage name, or fail_stage  *)
(* with an undeclared stage name: the call raises, and status,             *)
(* current_stage_index, stage_results, retry_counts and the pending        *)
(* domain_events are the same after the call as before it.                 *)
(***************************************************************************)
OutsidePrecondition(p, c) ==
    \/ c.op = "start_processing" /\ p.status # "PENDING"
    \/ c.op = "complete_stage" /\ (p.status # "RUNNING" \/ c.stage_name \notin p.stages)
    \/ c.op = "fail_stage" /\ c.stage_name \notin p.stages

SameObservableState(p, q) ==
    /\ q.status = p.status
    /\ q.current_stage_index = p.current_stage_index
    /\ q.stage_results = p.stage_results
    /\ q.retry_counts = p.retry_counts
    /\ q.domain_events = p.domain_events

NoStages(p) == Len(p.stage_order) = 0

C32_EmptyPipelineStartsRunning ==
    /\ [](NoStages(pipeline) => progress_percentage(pipeline).num = 0)
    /\ [][ (ops' = ops + 1 /\ NoStages(pipeline)) =>
             /\ (call'.op = "start_processing" /\ pipeline.status = "PENDING")
                    => (call'.err = "none" /\ pipeline'.status = "RUNNING")
             /\ (call'.op = "complete_pipeline" /\ pipeline.status = "RUNNING")
                    => (call'.err = "none" /\ pipeline'.status = "COMPLETED") ]_vars

\* start_processing has just been accepted on a pipeline without stages
C32_Witness ==
    /\ NoStages(pipeline)
    /\ call.op = "start_processing"
    /\ call.err = "none"
    /\ pipeline.status = "RUNNING"

\* C32 as stated: for a pipeline with an empty stage list the status after
\* an accepted start_processing is COMPLETED, and progress_percentage is 0
C32_EmptyPipelineCompletesOnStart ==
    [][ (ops' = ops + 1 /\ NoStages(pipeline)
            /\ call'.op = "start_processing" /\ call'.err = "none")
          => (pipeline'.status = "COMPLETED" /\ progress_percentage(pipeline').num = 0) ]_vars

(***************************************************************************)
(* C33: validation precedes mutation in complete_stage.  For every         *)
(* complete_stage call that passes its own tests (declared stage, RUNNING  *)
(* pipeline) and raises because the complete_pipeline it triggers finds a  *)
(* declared stage without a COMPLETED result: stage_results,               *)
(* current_stage_index, retry_counts and the pending domain_events are     *)
(* the same after the call as before it.                                   *)
(***************************************************************************)
C33_FailedCompletionRollsBack ==
    [][ (/\ ops' = ops + 1
         /\ call'.op = "complete_stage"
         /\ call'.stage_name \in pipeline.stages
         /\ pipeline.status = "RUNNING"
         /\ call'.err # "none")
          => (/\ pipeline'.stage_results = pipeline.stage_results
              /\ pipeline'.current_stage_index = pipeline.current_stage_index
              /\ pipeline'.retry_counts = pipeline.retry_counts
              /\ pipeline'.domain_events = pipeline.domain_events) ]_vars

(***************************************************************************)
(* C34: in every state where the pipeline status is FAILED there is a      *)
(* stage n whose stored result has status FAILED, whose retry count is     *)
(* above max_retries, and whose stored error_message is the message of the *)
(* most recent accepted fail_stage(n, ...) call.  Every accepted           *)
(* fail_stage emits one StageFailed event carrying its message, so the     *)
(* most recent call for n is the last StageFailed event of n in the        *)
(* emission history.                                                       *)
(***************************************************************************)
FailedEventIds(p, n) ==
    { i \in 1..Len(p.emitted) :
        p.emitted[i].type = "StageFailed" /\ p.emitted[i].stage_name = n }

LastFailureMessage(p, n) ==
    LET ids == FailedEventIds(p, n)
    IN  IF ids = {} THEN "none"
        ELSE p.emitted[CHOOSE i \in ids : \A j \in ids : j <= i].info

C34_FailedPipelineNamesItsFailure ==
    pipeline.status = "FAILED" =>
        \E n \in pipeline.stages :
            /\ pipeline.stage_results[n].status = "FAILED"
            /\ pipeline.retry_counts[n] > pipeline.configuration.max_retries
            /\ pipeline.stage_results[n].error_message = LastFailureMessage(pipeline, n)

\* a FAILED pipeline whose failed stage was failed again with another message
C34_Witness ==
    /\ pipeline.status = "FAILED"
    /\ call.op = "fail_stage"
    /\ call.err = "none"
    /\ \E n \in pipeline.stages :
         /\ pipeline.stage_results[n].status = "FAILED"
         /\ \E i, j \in FailedEventIds(pipeline, n) :
              pipeline.emitted[i].info # pipeline.emitted[j].info

(***************************************************************************)
(* C35: a publish failure while the events of a successful complete_stage  *)
(* are flushed records no failure for the stage.  For every step in which  *)
(* EventPublisher.publish raises at the flush that follows                 *)
(* complete_stage(s, r) with r.status = COMPLETED: s stays recorded as     *)
(* COMPLETED, retry_counts[s] is not incremented, no StageFailed event is  *)
(* emitted for s, and a COMPLETED pipeline status stays COMPLETED.         *)
(***************************************************************************)
PublishFailsAfterCompletedStage ==
    /\ driver.pc = "publish"
    /\ driver.at = "stage_ok"
    /\ pipeline.stage_results[StageName(Here)].status = "COMPLETED"
    /\ Len(effects') = Len(effects) + 1
    /\ effects'[Len(effects')].kind = "publish_failed"
    /\ effects'[Len(effects')].info = "driver"

C35_PublishFailureRecordsNoStageFailure ==
    [][ PublishFailsAfterCompletedStage =>
          LET s == StageName(Here)
          IN  /\ pipeline'.stage_results[s].status = "COMPLETED"
              /\ pipeline'.retry_counts[s] = pipeline.retry_counts[s]
              /\ FailedEventIds(pipeline', s) = FailedEventIds(pipeline, s)
              /\ (pipeline.status = "COMPLETED" => pipeline'.status = "COMPLETED") ]_vars

(***************************************************************************)
(* C36: no emitted event is dropped.  Every behaviour of execute_pipeline  *)
(* and cancel_pipeline is finite, so "eventually published" is "published  *)
(* by the time both coroutines have ended": in every state where           *)
(* execute_pipeline has ended, no cancel_pipeline call is in progress and  *)
(* EventPublisher.publish has never failed, every event the aggregate      *)
(* emitted has been passed to publish at least once, whatever the          *)
(* interleaving of the two coroutines was.                                 *)
(***************************************************************************)
PublishNeverFailed == \A k \in 1..Len(effects) : effects[k].kind # "publish_failed"

Quiescent == driver.pc = "done" /\ canceller.pc = "idle"

C36_EveryEmittedEventIsPublished ==
    (Quiescent /\ PublishNeverFailed) =>
        \A i \in 1..Len(pipeline.emitted) :
            \E k \in 1..Len(Published) : Published[k] = pipeline.emitted[i]

\* both coroutines have ended; the cancel was accepted right after a publish of
\* the driver, and the driver emitted and flushed another event after it
C36_Witness ==
    /\ Quiescent
    /\ PublishNeverFailed
    /\ \E i, j \in 1..Len(pipeline.emitted) :
         /\ i < j
         /\ pipeline.emitted[i].type = "PipelineCancelled"
         /\ pipeline.emitted[j].type = "StageFailed"
    /\ \E k \in 2..Len(effects) :
         /\ effects[k].kind = "cancel_pipeline"
         /\ effects[k].info = "RUNNING"
         /\ effects[k - 1].kind = "publish"
         /\ effects[k - 1].info = "driver"

(***************************************************************************)
(* C37: in a StageFailed event will_retry tells whether the stage may be   *)
(* tried again.  For every accepted fail_stage call on a RUNNING pipeline, *)
(* the StageFailed event it emits has will_retry true exactly when the     *)
(* call left the pipeline not FAILED, and false exactly when the call made *)
(* the pipeline FAILED.                                                    *)
(***************************************************************************)
C37_WillRetryIffNotFailed ==
    [][ (/\ ops' = ops + 1
         /\ call'.op = "fail_stage"
         /\ call'.err = "none"
         /\ pipeline.status = "RUNNING")
          => LET event == pipeline'.emitted[Len(pipeline'.emitted)]
                 data  == _get_event_data(event, pipeline.configuration.max_retries)
             IN  /\ event.type = "StageFailed"
                 /\ data.will_retry <=> (pipeline'.status # "FAILED") ]_vars

(***************************************************************************)
(* C38: the error of a stage body reaches the caller.  In every state      *)
(* where execute_pipeline has ended after a stage body raised StageError   *)
(* and no collaborator failed, execute_pipeline ended by raising and the   *)
(* error it raised is StageError: the outer failure handler did not fail   *)
(* with an error of its own.                                               *)
(***************************************************************************)
StageBodyRaised == \E k \in 1..Len(effects) : effects[k].kind = "process_raised"

C38_StageErrorReachesCaller ==
    (driver.pc = "done" /\ StageBodyRaised /\ faults = 0) =>
        (driver.outcome = "raised" /\ driver.error = "StageError")

(***************************************************************************)
(* C39, as the code has it: whenever execute_pipeline has returned         *)
(* normally the pipeline it returns is COMPLETED or CANCELLED, under any   *)
(* interleaving with cancel_pipeline; it is CANCELLED only when a          *)
(* cancel_pipeline call was accepted during the run, so a run without an   *)
(* accepted cancel that returns normally returns a COMPLETED pipeline.     *)
(***************************************************************************)
Returned == driver.pc = "done" /\ driver.outcome = "returned"

CancelAccepted ==
    \E i \in 1..Len(pipeline.emitted) : pipeline.emitted[i].type = "PipelineCancelled"

ConnectedThroughout == socket.initial \ socket.gone

SendCalled == socket.sent \cup socket.disconnected_clients

C40_BroadcastReachesEveryStayingClient ==
    socket.pc = "done" =>
        /\ socket.outcome = "returned"
        /\ socket.disconnected_clients \cap socket._clients = {}
        /\ ConnectedThroughout \subseteq SendCalled

====
